---- MODULE Spec2Model ----
(***************************************************************************)
(* Model of the configuration-driven preprocessing pipeline of             *)
(* housing_price_forecasting: DataPreprocessor (data_preprocessing.py) and *)
(* the stages it drives, DataCleaner (cleaner.py), OutlierDetector         *)
(* (outlier_detector.py), DataEncoder (encoder.py), plus the standalone    *)
(* DataImputation (imputation.py) and DataIngestion (data_ingestion.py).   *)
(*                                                                         *)
(* A pandas DataFrame is an object on a heap: stages hold references, so   *)
(* that copying (data.copy()), aliasing (self.data = data), in-place       *)
(* mutation (drop(..., inplace=True), df[c] = ...) and rebinding           *)
(* (self.data = self.data[mask]) are told apart.                           *)
(*                                                                         *)
(* Numbers are exact rationals n/d; a missing value is NaN.  The result of *)
(* StandardScaler, (v - mean)/sqrt(var), is kept exactly as a signed       *)
(* square root of a rational.                                              *)
(***************************************************************************)
EXTENDS Integers, Sequences, FiniteSets, TLC

(***************************************************************************)
(* Cell values                                                             *)
(***************************************************************************)
Cell(t, n, d, s) == [t |-> t, n |-> n, d |-> d, s |-> s]

\* numpy.nan: the missing marker
NaN == Cell("na", 0, 1, "")

\* Python's None (as a configuration value)
None == Cell("none", 0, 1, "")

Str(s) == Cell("str", 0, 1, s)

Abs(x) == IF x < 0 THEN -x ELSE x

RECURSIVE GCD(_, _)
GCD(a, b) == IF b = 0 THEN a ELSE GCD(b, a % b)

\* the rational n/d in lowest terms with a positive denominator (d # 0)
Rat(n, d) ==
    LET g == GCD(Abs(n), Abs(d))
        sg == IF d < 0 THEN -1 ELSE 1
    IN  Cell("num", sg * (n \div g), sg * (d \div g), "")

Num(n) == Rat(n, 1)

\* sign * sqrt(n/d), sign in {"+", "-"}; zero is Num(0)
Sqrt(sign, q) == IF q.n = 0 THEN Num(0) ELSE Cell("sqrt", q.n, q.d, sign)

IsNa(v) == v.t = "na"

RAdd(a, b) == Rat(a.n * b.d + b.n * a.d, a.d * b.d)
RSub(a, b) == Rat(a.n * b.d - b.n * a.d, a.d * b.d)
RMul(a, b) == Rat(a.n * b.n, a.d * b.d)
RDiv(a, b) == Rat(a.n * b.d, a.d * b.n)
RLt(a, b) == a.n * b.d < b.n * a.d
RLe(a, b) == a.n * b.d <= b.n * a.d
RAbs(a) == Rat(Abs(a.n), a.d)

(***************************************************************************)
(* Sequences of cells (a pandas Series without its index)                  *)
(***************************************************************************)
Range(f) == {f[i] : i \in DOMAIN f}

\* Series.dropna()
NonNa(s) == SelectSeq(s, LAMBDA v : ~IsNa(v))

\* Series.isna().sum()
NaCount(s) == Len(s) - Len(NonNa(s))

RECURSIVE RSum(_)
RSum(s) == IF s = <<>> THEN Num(0) ELSE RAdd(Head(s), RSum(Tail(s)))

\* the order sklearn and pandas sort categories in: strings alphabetically
Strings == <<"a", "b">>
StrRank(x) == CHOOSE i \in DOMAIN Strings : Strings[i] = x

\* order of two non-missing cells of one column (numbers, or strings)
CellLt(a, b) ==
    IF a.t = "num" /\ b.t = "num" THEN RLt(a, b)
    ELSE IF a.t = "str" /\ b.t = "str" THEN StrRank(a.s) < StrRank(b.s)
    ELSE a.t = "num" /\ b.t = "str"

RECURSIVE Insert(_, _)
Insert(v, s) ==
    IF s = <<>> THEN <<v>>
    ELSE IF CellLt(v, Head(s)) THEN <<v>> \o s
    ELSE <<Head(s)>> \o Insert(v, Tail(s))

RECURSIVE Sorted(_)
Sorted(s) == IF s = <<>> THEN <<>> ELSE Insert(Head(s), Sorted(Tail(s)))

\* Series.mean(): skips NaN; NaN when nothing is left
Mean(s) ==
    LET v == NonNa(s)
    IN  IF v = <<>> THEN NaN ELSE RDiv(RSum(v), Num(Len(v)))

\* numpy's linear-interpolation quantile of the non-missing values, at qn/qd
Quantile(s, qn, qd) ==
    LET v == Sorted(NonNa(s))
        k == Len(v)
        lo == ((k - 1) * qn) \div qd
        fr == Rat(((k - 1) * qn) % qd, qd)
    IN  IF k = 0 THEN NaN
        ELSE IF lo + 2 > k THEN v[lo + 1]
        ELSE RAdd(v[lo + 1], RMul(fr, RSub(v[lo + 2], v[lo + 1])))

\* Series.median()
Median(s) == Quantile(s, 1, 2)

Count(s, x) == Len(SelectSeq(s, LAMBDA v : v = x))

\* the distinct cells of S in sorted order (pandas.unique + sort)
RECURSIVE SortSet(_)
SortSet(S) ==
    IF S = {} THEN <<>>
    ELSE LET m == CHOOSE x \in S : \A y \in S \ {x} : CellLt(x, y)
         IN  <<m>> \o SortSet(S \ {m})

\* Series.mode(): the most frequent non-missing values, sorted
Mode(s) ==
    LET v == NonNa(s)
    IN  SortSet({x \in Range(v) : \A y \in Range(v) : Count(v, y) <= Count(v, x)})

(***************************************************************************)
(* Tables (pandas.DataFrame): ordered column names, a dtype and a value    *)
(* sequence per column, and the row index labels.                          *)
(***************************************************************************)
Table(cols, dtype, index, val) ==
    [cols |-> cols, dtype |-> dtype, index |-> index, val |-> val]

NRows(t) == Len(t.index)
Columns(t) == Range(t.cols)
HasCol(t, c) == c \in Columns(t)

\* pd.api.types.is_numeric_dtype(df[c])
IsNumericDtype(t, c) == t.dtype[c] = "num"

Restrict(f, S) == [x \in S |-> f[x]]

\* df.drop(columns=S, inplace=True), for S a set of present columns
DropCols(t, S) ==
    Table(SelectSeq(t.cols, LAMBDA c : c \notin S),
          Restrict(t.dtype, Columns(t) \ S), t.index,
          Restrict(t.val, Columns(t) \ S))

\* df[c] = vals: replaces a present column in place, appends a new one
SetCol(t, c, dt, vals) ==
    Table(IF HasCol(t, c) THEN t.cols ELSE Append(t.cols, c),
          [x \in Columns(t) \cup {c} |-> IF x = c THEN dt ELSE t.dtype[x]],
          t.index,
          [x \in Columns(t) \cup {c} |-> IF x = c THEN vals ELSE t.val[x]])

RECURSIVE Pick(_, _, _)
Pick(s, K, i) ==
    IF i > Len(s) THEN <<>>
    ELSE (IF i \in K THEN <<s[i]>> ELSE <<>>) \o Pick(s, K, i + 1)

\* df[mask]: a new frame with the rows at positions K, index labels kept
KeepRows(t, K) ==
    Table(t.cols, t.dtype, Pick(t.index, K, 1),
          [c \in Columns(t) |-> Pick(t.val[c], K, 1)])

\* what an operation hands back: err = "" on a normal return, otherwise the
\* exception raised; tbl is the table the stage holds afterwards
Ok(t) == [err |-> "", tbl |-> t]
Raise(e, t) == [err |-> e, tbl |-> t]

(***************************************************************************)
(* DataCleaner (cleaner.py)                                                *)
(***************************************************************************)
\* DataCleaner.drop_columns: names absent from the table are ignored
drop_columns(t, columns) ==
    Ok(DropCols(t, Range(columns) \cap Columns(t)))

\* isna().mean() * 100 of one column, NaN for a table without rows
missing_percentage(t, c) ==
    IF NRows(t) = 0 THEN NaN ELSE Rat(100 * NaCount(t.val[c]), NRows(t))

\* missing_percentages > threshold (False for NaN)
above_threshold(pct, threshold) == pct.t = "num" /\ RLt(threshold, pct)

\* DataCleaner.drop_na_columns; comparing with None raises TypeError
drop_na_columns(t, threshold) ==
    IF threshold.t # "num" THEN Raise("TypeError", t)
    ELSE Ok(DropCols(t, {c \in Columns(t) :
                above_threshold(missing_percentage(t, c), threshold)}))

HasStr(s) == \E i \in DOMAIN s : s[i].t = "str"

\* a fill that overwrites every entry of the column
fillna_every_entry(s, value) == [i \in DOMAIN s |-> value]

\* Series.fillna(value, inplace=True) through df[c]
fillna(s, value) == [i \in DOMAIN s |-> IF IsNa(s[i]) THEN value ELSE s[i]]

\* one pair of impute_values with the strategy looked at before the column
impute_one_strategy_first(t, column, strategy) ==
    IF strategy \notin {"mean", "median", "mode"} THEN Raise("ValueError", t)
    ELSE IF ~HasCol(t, column) THEN Ok(t)
    ELSE LET s == t.val[column]
         IN  IF strategy = "mean" THEN
                 IF HasStr(s) THEN Raise("TypeError", t)
                 ELSE Ok(SetCol(t, column, t.dtype[column], fillna(s, Mean(s))))
             ELSE IF strategy = "median" THEN
                 IF HasStr(s) THEN Raise("TypeError", t)
                 ELSE Ok(SetCol(t, column, t.dtype[column], fillna(s, Median(s))))
             ELSE IF Mode(s) = <<>> THEN Raise("KeyError", t)
             ELSE Ok(SetCol(t, column, t.dtype[column], fillna(s, Mode(s)[1])))

\* one (column, strategy) pair of DataCleaner.impute_values
impute_one(t, column, strategy) ==
    IF ~HasCol(t, column) THEN Ok(t)
    ELSE LET s == t.val[column]
         IN  IF strategy = "mean" THEN
                 IF HasStr(s) THEN Raise("TypeError", t)
                 ELSE Ok(SetCol(t, column, t.dtype[column], fillna(s, Mean(s))))
             ELSE IF strategy = "median" THEN
                 IF HasStr(s) THEN Raise("TypeError", t)
                 ELSE Ok(SetCol(t, column, t.dtype[column], fillna(s, Median(s))))
             ELSE IF strategy = "mode" THEN
                 IF Mode(s) = <<>> THEN Raise("KeyError", t)
                 ELSE Ok(SetCol(t, column, t.dtype[column], fillna(s, Mode(s)[1])))
             ELSE Raise("ValueError", t)

\* DataCleaner.impute_values over the (column, strategy) pairs in order; a
\* raise leaves the pairs before it applied
RECURSIVE impute_values(_, _)
impute_values(t, pairs) ==
    IF pairs = <<>> THEN Ok(t)
    ELSE LET r == impute_one(t, Head(pairs)[1], Head(pairs)[2])
         IN  IF r.err # "" THEN r ELSE impute_values(r.tbl, Tail(pairs))

(***************************************************************************)
(* OutlierDetector (outlier_detector.py)                                   *)
(***************************************************************************)
\* OutlierDetector.detect_iqr_outliers: the column lookup, the dtype check,
\* and then the end of the body: the method returns None
detect_iqr_outliers(t, column, threshold) ==
    IF ~HasCol(t, column) THEN [err |-> "KeyError", ret |-> None]
    ELSE IF ~IsNumericDtype(t, column) THEN [err |-> "ValueError", ret |-> None]
    ELSE [err |-> "", ret |-> None]

\* the z-score test without the absolute value: only values above the mean
zscore_above_signed(s, x, threshold) ==
    LET v == NonNa(s)
        k == Len(v)
        m == Mean(s)
        sq(a) == RMul(a, a)
        ss == RSum([i \in DOMAIN v |-> sq(RSub(v[i], m))])
    IN  /\ ~IsNa(x)
        /\ k >= 2
        /\ ss.n # 0
        /\ \/ threshold.n < 0
           \/ /\ RLt(m, x)
              /\ RLt(RMul(sq(threshold), RDiv(ss, Num(k - 1))), sq(RSub(x, m)))

\* abs((x - mean) / std) > threshold, std with ddof = 1; NaN compares False
zscore_above(s, x, threshold) ==
    LET v == NonNa(s)
        k == Len(v)
        m == Mean(s)
        sq(a) == RMul(a, a)
        ss == RSum([i \in DOMAIN v |-> sq(RSub(v[i], m))])
    IN  /\ ~IsNa(x)
        /\ k >= 2
        /\ ss.n # 0
        /\ \/ threshold.n < 0
           \/ RLt(RMul(sq(threshold), RDiv(ss, Num(k - 1))), sq(RSub(x, m)))

\* OutlierDetector.detect_zscore_outliers: the values of the flagged rows
detect_zscore_outliers(t, column, threshold) ==
    IF ~HasCol(t, column) THEN [err |-> "KeyError", ret |-> {}]
    ELSE IF ~IsNumericDtype(t, column) THEN [err |-> "ValueError", ret |-> {}]
    ELSE [err |-> "",
          ret |-> {t.val[column][i] : i \in
                    {j \in 1..NRows(t) : zscore_above(t.val[column], t.val[column][j], threshold)}}]

\* what IsolationForest / EllipticEnvelope can do on df[[column]] with
\* contamination = threshold: raise, or flag a set K of row positions, at
\* most the contamination share of the rows (rounded up).
\* sklearn rejects strings and a contamination outside (0, 0.5]; missing
\* values are rejected by EllipticEnvelope and, depending on the sklearn
\* version, by IsolationForest; a degenerate covariance can make
\* EllipticEnvelope raise on clean data.
sklearn_outcomes(t, column, method, threshold) ==
    LET s == t.val[column]
        flags == {[err |-> "", K |-> K] : K \in
                    {K \in SUBSET (1..NRows(t)) :
                        Cardinality(K) * threshold.d <= threshold.n * NRows(t) + threshold.d - 1}}
        bad == [err |-> "ValueError", K |-> {}]
        invalid == \/ HasStr(s) \/ NRows(t) = 0
                   \/ threshold.t # "num"
                   \/ ~RLt(Num(0), threshold) \/ RLt(Rat(1, 2), threshold)
    IN  IF invalid THEN {bad}
        ELSE IF method = "iforest"
             THEN (IF NaCount(s) > 0 THEN {bad} ELSE {}) \cup flags
             ELSE IF NaCount(s) > 0 THEN {bad} ELSE {bad} \cup flags

\* OutlierDetector.remove_outliers.  lib is the outcome of the sklearn model
\* for iforest / robust_cov.  new tells whether self.data was rebound to a
\* new frame.  A method name outside the four falls through every branch.
remove_outliers(t, column, method, threshold, lib) ==
    IF method = "iqr" THEN
        LET d == detect_iqr_outliers(t, column, threshold)
        IN  IF d.err # "" THEN [err |-> d.err, tbl |-> t, new |-> FALSE]
            ELSE [err |-> "TypeError", tbl |-> t, new |-> FALSE]
    ELSE IF method = "zscore" THEN
        LET d == detect_zscore_outliers(t, column, threshold)
        IN  IF d.err # "" THEN [err |-> d.err, tbl |-> t, new |-> FALSE]
            ELSE [err |-> "", new |-> TRUE,
                  tbl |-> KeepRows(t, {i \in 1..NRows(t) : t.val[column][i] \notin d.ret})]
    ELSE IF method \in {"iforest", "robust_cov"} THEN
        IF ~HasCol(t, column) THEN [err |-> "KeyError", tbl |-> t, new |-> FALSE]
        ELSE IF lib.err # "" THEN [err |-> lib.err, tbl |-> t, new |-> FALSE]
        ELSE [err |-> "", new |-> TRUE, tbl |-> KeepRows(t, (1..NRows(t)) \ lib.K)]
    ELSE [err |-> "", tbl |-> t, new |-> FALSE]

(***************************************************************************)
(* DataEncoder (encoder.py)                                                *)
(***************************************************************************)
\* dict[key] = value
Put(reg, key, value) ==
    [x \in DOMAIN reg \cup {key} |-> IF x = key THEN value ELSE reg[x]]

\* OneHotEncoder / LabelEncoder categories: the distinct values sorted, the
\* missing value last
categories(s) ==
    SortSet(Range(NonNa(s))) \o (IF NaCount(s) > 0 THEN <<NaN>> ELSE <<>>)

\* the category as get_feature_names_out prints it after the column name
CatName(v) ==
    IF v.t = "str" THEN v.s
    ELSE IF v.t = "na" THEN "nan"
    ELSE IF v.d = 1 THEN ToString(v.n)
    ELSE ToString(v.n) \o "/" \o ToString(v.d)

feature_name(column, v) == column \o "_" \o CatName(v)

RECURSIVE add_indicators(_, _, _, _)
\* for i, name in enumerate(feature_names): self.data[name] = encoded_data[:, i]
add_indicators(t, column, s, cats) ==
    IF cats = <<>> THEN t
    ELSE add_indicators(
            SetCol(t, feature_name(column, Head(cats)), "num",
                   [i \in DOMAIN s |-> IF s[i] = Head(cats) THEN Num(1) ELSE Num(0)]),
            column, s, Tail(cats))

\* position of x in the sequence cats, from 0
CodeOf(cats, x) == (CHOOSE i \in DOMAIN cats : cats[i] = x) - 1

\* DataEncoder.encode_categorical: the table and the fitted_encoders registry
\* afterwards.  sklearn refuses a table without rows; the except clause logs
\* it and the table is returned as it is.
encode_categorical(t, reg, column, method) ==
    IF ~HasCol(t, column) THEN [tbl |-> t, reg |-> reg]
    ELSE LET s == t.val[column]
             cats == categories(s)
         IN  IF method = "one_hot" THEN
                 IF NRows(t) = 0 THEN [tbl |-> t, reg |-> reg]
                 ELSE [tbl |-> add_indicators(DropCols(t, {column}), column, s, cats),
                       reg |-> Put(reg, column, "one_hot")]
             ELSE IF method = "label" THEN
                 [tbl |-> SetCol(t, column, "num",
                                 [i \in DOMAIN s |-> Num(CodeOf(cats, s[i]))]),
                  reg |-> Put(reg, column, "label")]
             ELSE [tbl |-> t, reg |-> reg]

\* (x - center) / scale, a scale of zero being replaced by 1 as sklearn does
rescale(s, center, scale) ==
    [i \in DOMAIN s |->
        IF IsNa(s[i]) THEN NaN
        ELSE IF scale.n = 0 THEN RSub(s[i], center)
        ELSE RDiv(RSub(s[i], center), scale)]

\* StandardScaler: (x - mean) / sqrt(population variance); a column that is
\* already standardised (mean 0, variance 1) is mapped to itself
standard_scale(s) ==
    LET v == NonNa(s)
        m == Mean(s)
        sq(a) == RMul(a, a)
        var == RDiv(RSum([i \in DOMAIN v |-> sq(RSub(v[i], m))]), Num(Len(v)))
    IN  IF \E i \in DOMAIN s : s[i].t = "sqrt" THEN s
        ELSE [i \in DOMAIN s |->
                IF IsNa(s[i]) THEN NaN
                ELSE IF var.n = 0 THEN RSub(s[i], m)
                ELSE Sqrt(IF RLt(s[i], m) THEN "-" ELSE "+",
                          RDiv(sq(RSub(s[i], m)), var))]

\* MinMaxScaler: (x - min) / (max - min)
minmax_scale(s) ==
    LET v == Sorted(NonNa(s))
    IN  IF v = <<>> THEN s
        ELSE rescale(s, v[1], RSub(v[Len(v)], v[1]))

\* RobustScaler: (x - median) / (Q3 - Q1)
robust_scale(s) ==
    IF NonNa(s) = <<>> THEN s
    ELSE rescale(s, Median(s), RSub(Quantile(s, 3, 4), Quantile(s, 1, 4)))

\* scale_features that records the method it was asked for before looking
\* at it
scale_features_records_first(t, reg, column, method) ==
    IF ~HasCol(t, column) THEN [tbl |-> t, reg |-> reg]
    ELSE IF method \notin {"standard", "minmax", "robust"}
         THEN [tbl |-> t, reg |-> Put(reg, column, method)]
    ELSE LET s == t.val[column]
         IN  IF HasStr(s) \/ NRows(t) = 0 THEN [tbl |-> t, reg |-> reg]
             ELSE [tbl |-> SetCol(t, column, "num",
                                  IF method = "standard" THEN standard_scale(s)
                                  ELSE IF method = "minmax" THEN minmax_scale(s)
                                  ELSE robust_scale(s)),
                   reg |-> Put(reg, column, method)]

\* DataEncoder.scale_features: the table and the fitted_scalers registry
\* afterwards.  The scaler refuses strings and a table without rows; the
\* except clause logs it and the table is returned as it is.
scale_features(t, reg, column, method) ==
    IF ~HasCol(t, column) THEN [tbl |-> t, reg |-> reg]
    ELSE IF method \notin {"standard", "minmax", "robust"} THEN [tbl |-> t, reg |-> reg]
    ELSE LET s == t.val[column]
         IN  IF HasStr(s) \/ NRows(t) = 0 THEN [tbl |-> t, reg |-> reg]
             ELSE [tbl |-> SetCol(t, column, "num",
                                  IF method = "standard" THEN standard_scale(s)
                                  ELSE IF method = "minmax" THEN minmax_scale(s)
                                  ELSE robust_scale(s)),
                   reg |-> Put(reg, column, method)]

(***************************************************************************)
(* DataImputation (imputation.py)                                          *)
(***************************************************************************)
\* DataImputation.fill_median
fill_median(t, column) ==
    IF ~HasCol(t, column) THEN Raise("ValueError: not found", t)
    ELSE IF ~IsNumericDtype(t, column) THEN Raise("ValueError: must be numeric", t)
    ELSE Ok(SetCol(t, column, t.dtype[column],
                   fillna(t.val[column], Median(t.val[column]))))

\* DataImputation.fill_mean
fill_mean(t, column) ==
    IF ~HasCol(t, column) THEN Raise("ValueError: not found", t)
    ELSE IF ~IsNumericDtype(t, column) THEN Raise("ValueError: must be numeric", t)
    ELSE Ok(SetCol(t, column, t.dtype[column],
                   fillna(t.val[column], Mean(t.val[column]))))

\* fill_mode with the dtype check of fill_median and fill_mean
fill_mode_numeric_only(t, column) ==
    IF ~HasCol(t, column) THEN Raise("ValueError: not found", t)
    ELSE IF ~IsNumericDtype(t, column) THEN Raise("ValueError: must be numeric", t)
    ELSE IF Mode(t.val[column]) = <<>> THEN Raise("KeyError", t)
    ELSE Ok(SetCol(t, column, t.dtype[column],
                   fillna(t.val[column], Mode(t.val[column])[1])))

\* DataImputation.fill_mode; mode()[0] of a column without values raises
fill_mode(t, column) ==
    IF ~HasCol(t, column) THEN Raise("ValueError: not found", t)
    ELSE IF Mode(t.val[column]) = <<>> THEN Raise("KeyError", t)
    ELSE Ok(SetCol(t, column, t.dtype[column],
                   fillna(t.val[column], Mode(t.val[column])[1])))

(***************************************************************************)
(* DataIngestion (data_ingestion.py)                                       *)
(***************************************************************************)
\* A file_path argument: a string or not, and what is found at the path:
\* "absent", "empty" (pd.errors.EmptyDataError), "garbled"
\* (pd.errors.ParserError), "nocols" (read_csv builds a table without
\* columns) or "csv", a file read_csv turns into a table.
Path(isstr, text, file) == [isstr |-> isstr, text |-> text, file |-> file]

\* len(file_path.strip()) > 0
Blank(text) == text \in {"", "  "}

\* what the two try blocks of import_csv raise inside, "" for nothing: the
\* asserts on file_path, the os.path.exists test, read_csv, the assert on
\* df.columns
import_csv_raises(path, df) ==
    IF ~path.isstr \/ Blank(path.text) THEN "AssertionError"
    ELSE IF path.file = "absent" THEN "FileNotFoundError"
    ELSE IF path.file = "empty" THEN "EmptyDataError"
    ELSE IF path.file = "garbled" THEN "ParserError"
    ELSE IF Len(df.cols) = 0 THEN "AssertionError"
    ELSE ""

\* the except clauses of the second try block without its last one
read_handlers_named_only(e) ==
    e \in {"FileNotFoundError", "EmptyDataError", "ParserError"}

\* the except clauses of the second try block: three named classes, then
\* Exception, which every exception raised in the block derives from
read_handlers(e) ==
    \/ e \in {"FileNotFoundError", "EmptyDataError", "ParserError"}
    \/ e \in {"AssertionError", "TypeError", "ValueError", "UnicodeDecodeError"}

\* DataIngestion.import_csv(file_path), df being what read_csv would build:
\* ok with the table, or None (ok false) when an except clause caught what
\* was raised; err is an exception no clause caught, which leaves the call
import_csv(path, df) ==
    LET e == import_csv_raises(path, df)
        validation == ~path.isstr \/ Blank(path.text)
    IN  IF e = "" THEN [ok |-> TRUE, df |-> df, err |-> ""]
        ELSE IF validation \/ read_handlers(e) THEN [ok |-> FALSE, df |-> df, err |-> ""]
        ELSE [ok |-> FALSE, df |-> df, err |-> e]

(***************************************************************************)
(* Inputs                                                                  *)
(***************************************************************************)
\* most rows of a CSV file
MaxRows == 3

\* the rows a CSV file is made of: (age, dept, x)
RowPool ==
    { <<Num(1), Str("a"), Num(1)>>, <<Num(9), Str("b"), Num(1)>>,
      <<NaN, NaN, Num(9)>> }

\* read_csv's dtype inference: a column without text is float64, a column
\* without any row is object
InferDtype(s) == IF s = <<>> \/ HasStr(s) THEN "obj" ELSE "num"

RowSeqs == UNION {[1..n -> RowPool] : n \in 0..MaxRows}

\* the DataFrame read_csv builds from rows: RangeIndex 0..n-1
FrameOf(rows) ==
    LET col(c) == [i \in DOMAIN rows |->
                     rows[i][IF c = "age" THEN 1 ELSE IF c = "dept" THEN 2 ELSE 3]]
    IN  Table(<<"age", "dept", "x">>,
              [c \in {"age", "dept", "x"} |-> InferDtype(col(c))],
              [i \in DOMAIN rows |-> i - 1],
              [c \in {"age", "dept", "x"} |-> col(c)])

\* a longer file, one age far from four equal ones: its z-score is
\* 4 / sqrt(5), between 1.5 and 3
SpreadRows ==
    << <<Num(1), Str("a"), Num(1)>>, <<Num(1), Str("a"), Num(1)>>,
       <<Num(1), Str("a"), Num(1)>>, <<Num(1), Str("a"), Num(1)>>,
       <<Num(9), Str("b"), Num(1)>> >>

Frames == {FrameOf(rows) : rows \in RowSeqs \cup {SpreadRows}}

\* a DataFrame without columns
NoColumns == Table(<<>>, <<>>, <<>>, <<>>)

\* what read_csv builds from the file at path
ReadCsv(path) == IF path.file = "nocols" THEN {NoColumns} ELSE Frames

Paths ==
    { Path(FALSE, "", "absent"), Path(TRUE, "", "absent"), Path(TRUE, "  ", "absent"),
      Path(TRUE, "nonexistent.csv", "absent"), Path(TRUE, "empty.csv", "empty"),
      Path(TRUE, "bad.csv", "garbled"), Path(TRUE, "header.csv", "nocols"),
      Path(TRUE, "data.csv", "csv") }

\* a configuration section: absent from the dict, or present with a value
Opt(pool, default) ==
    {[has |-> FALSE, v |-> default]} \cup {[has |-> TRUE, v |-> x] : x \in pool}

\* outlier_columns[column] = settings, a dict that may lack either key
Settings(hm, m, ht, t) ==
    [has_method |-> hm, method |-> m, has_threshold |-> ht, threshold |-> t]
Entry(column, settings) == [column |-> column, settings |-> settings]

DropColumnsPool == {<<"zzz", "x">>}
NaThresholdPool == {None, Rat(1, 2)}
\* (median_imputation, mean_imputation, mode_imputation)
Absent == [has |-> FALSE, v |-> <<>>]
Present(v) == [has |-> TRUE, v |-> v]
ImputationPool ==
    { <<Absent, Absent, Absent>>,
      <<Present(<<"age">>), Absent, Absent>>,
      <<Absent, Present(<<"age">>), Absent>>,
      <<Absent, Absent, Present(<<"dept">>)>>,
      <<Absent, Present(<<"dept">>), Absent>>,
      <<Present(<<"age">>), Absent, Present(<<"age">>)>>,
      <<Present(<<"age">>), Present(<<"age">>), Absent>>,
      <<Present(<<"age">>), Present(<<"age">>), Present(<<"age">>)>>,
      <<Present(<<"zzz">>), Present(<<"age">>), Present(<<"dept">>)>> }
OutlierColumnsPool ==
    { <<Entry("age", Settings(TRUE, "zscore", TRUE, Rat(1, 2)))>>,
      <<Entry("age", Settings(TRUE, "iqr", TRUE, Rat(3, 2)))>>,
      <<Entry("age", Settings(TRUE, "bogus", TRUE, Rat(3, 2)))>>,
      <<Entry("zzz", Settings(TRUE, "zscore", TRUE, Num(3)))>>,
      <<Entry("age", Settings(TRUE, "zscore", FALSE, None)),
        Entry("x", Settings(TRUE, "zscore", TRUE, Rat(1, 2)))>>,
      <<Entry("x", Settings(TRUE, "iforest", TRUE, Rat(1, 4))),
        Entry("zzz", Settings(TRUE, "bogus", FALSE, None))>>,
      <<Entry("x", Settings(TRUE, "robust_cov", TRUE, Rat(1, 4)))>>,
      <<Entry("x", Settings(FALSE, "", FALSE, None))>>,
      <<Entry("age", Settings(TRUE, "zscore", TRUE, Rat(1, 2))),
        Entry("x", Settings(TRUE, "zscore", TRUE, Rat(1, 2)))>> }
CategoricalEncodingPool ==
    { <<<<"dept", "one_hot">>>>, <<<<"zzz", "one_hot">>, <<"dept", "label">>>>,
      <<<<"dept", "bogus">>>> }
FeatureScalingPool ==
    { <<<<"age", "standard">>, <<"dept", "minmax">>>>,
      <<<<"zzz", "minmax">>, <<"dept_a", "robust">>>>,
      <<<<"x", "bogus">>, <<"age", "minmax">>>> }

(***************************************************************************)
(* State                                                                   *)
(***************************************************************************)
VARIABLES
    heap,             \* the DataFrame objects: heap[r] is the table of reference r
    data,             \* DataPreprocessor.data: a reference, 0 for None
    pc,               \* where preprocess stands: idle, clean, outlier, encode, scale
    config,           \* the config argument of preprocess, as read so far
    processed_data,   \* preprocess's local processed_data (0 outside a call)
    cleaner_data,     \* DataCleaner.data of the live cleaner (0: none)
    detector_data,    \* OutlierDetector.data of the live detector (0: none)
    encoder_data,     \* DataEncoder.data of the live encoder (0: none)
    fitted_encoders,  \* DataEncoder.fitted_encoders: column -> method
    fitted_scalers,   \* DataEncoder.fitted_scalers: column -> method
    imputer_data,     \* DataImputation.data of the live imputer (0: none)
    caller,           \* the table a standalone stage was constructed on (0: none)
    ncalls,           \* how many methods of the standalone stage were called
    call,             \* the last call made and what it raised
    result,           \* what the last call returned
    pipeline          \* the EDAPipeline / TrainingPipeline that ran (kind "": none)

vars == <<heap, data, pc, config, processed_data, cleaner_data, detector_data,
          encoder_data, fitted_encoders, fitted_scalers, imputer_data, caller,
          ncalls, call, result, pipeline>>

EmptyDict == [x \in {} |-> ""]

\* a configuration with no section read yet
NoConfig ==
    [has |-> {}, drop_columns |-> <<>>, na_threshold |-> None,
     median_imputation |-> <<>>, mean_imputation |-> <<>>, mode_imputation |-> <<>>,
     outlier_columns |-> <<>>, categorical_encoding |-> <<>>, feature_scaling |-> <<>>]

\* a call: the method, its column / method / threshold arguments, its list
\* argument (items), and the exception it raised ("" for none)
Call(op, column, method, arg, items, err) ==
    [op |-> op, column |-> column, method |-> method, arg |-> arg,
     items |-> items, err |-> err]
NoCall == Call("", "", "", None, <<>>, "")

\* a return value: None, a bool, or a reference to a table
Returned(kind, ref) == [kind |-> kind, ref |-> ref]
NoResult == Returned("", 0)

\* the encoder_config argument of TrainingPipeline.run
EncoderConfig(ce, fs) == [categorical_encoding |-> ce, feature_scaling |-> fs]

\* a pipeline object and the arguments of its run: BasePipeline.data (0 for
\* None), the configuration meant for preprocess, encoder_config,
\* target_column
Pipeline(kind, ref, cfg, ec, target) ==
    [kind |-> kind, data |-> ref, config |-> cfg, encoder_config |-> ec,
     target_column |-> target]
NoPipeline == Pipeline("", 0, NoConfig, EncoderConfig(<<>>, <<>>), "")

\* DataPreprocessor.__init__
Init ==
    /\ heap = <<>>
    /\ data = 0
    /\ pc = "idle"
    /\ config = NoConfig
    /\ processed_data = 0
    /\ cleaner_data = 0
    /\ detector_data = 0
    /\ encoder_data = 0
    /\ fitted_encoders = EmptyDict
    /\ fitted_scalers = EmptyDict
    /\ imputer_data = 0
    /\ caller = 0
    /\ ncalls = 0
    /\ call = NoCall
    /\ result = NoResult
    /\ pipeline = NoPipeline

\* the reference of the next object allocated
New(h) == Len(h) + 1

(***************************************************************************)
(* DataPreprocessor (data_preprocessing.py)                                *)
(***************************************************************************)
\* DataPreprocessor.load_data(file_path): self.data = import_csv(file_path)
LoadData ==
    /\ pc = "idle"
    /\ result = NoResult
    /\ \E path \in Paths : \E df \in ReadCsv(path) :
        LET r == import_csv(path, df)
        IN  /\ heap' = IF r.ok THEN Append(heap, r.df) ELSE heap
            /\ data' = IF r.err # "" THEN data ELSE IF r.ok THEN New(heap) ELSE 0
            /\ result' = IF r.err # "" THEN Returned("raised", 0)
                         ELSE Returned(IF r.ok THEN "True" ELSE "False", 0)
            /\ call' = Call("load_data", path.text, "", None, <<path>>, r.err)
    /\ UNCHANGED <<pipeline, pc, config, processed_data, cleaner_data, detector_data,
                   encoder_data, fitted_encoders, fitted_scalers, imputer_data,
                   caller, ncalls>>

\* preprocess, lines 41-50: no data loaded returns None; otherwise
\* processed_data = self.data.copy() and DataCleaner(processed_data), whose
\* constructor copies again
PreprocessBegin ==
    /\ pc = "idle"
    /\ call.op # "preprocess"
    /\ call' = Call("preprocess", "", "", None, <<>>, "")
    /\ config' = NoConfig
    /\ IF data = 0
       THEN /\ result' = Returned("None", 0)
            /\ UNCHANGED <<heap, pc, processed_data, cleaner_data>>
       ELSE /\ heap' = heap \o <<heap[data], heap[data]>>
            /\ processed_data' = New(heap)
            /\ cleaner_data' = New(heap) + 1
            /\ pc' = "clean"
            /\ result' = NoResult
    /\ UNCHANGED <<pipeline, data, detector_data, encoder_data, fitted_encoders,
                   fitted_scalers, imputer_data, caller, ncalls>>

\* dict[key] = value on an insertion-ordered dict of (key, value) pairs
Upsert(d, k, v) ==
    IF \E i \in DOMAIN d : d[i][1] = k
    THEN [i \in DOMAIN d |-> IF d[i][1] = k THEN <<k, v>> ELSE d[i]]
    ELSE Append(d, <<k, v>>)

RECURSIVE DictOf(_, _)
DictOf(d, pairs) ==
    IF pairs = <<>> THEN d
    ELSE DictOf(Upsert(d, Head(pairs)[1], Head(pairs)[2]), Tail(pairs))

WithStrategy(columns, strategy) == [i \in DOMAIN columns |-> <<columns[i], strategy>>]

\* the merge with the median list read last
imputation_dict_median_last(cfg) ==
    DictOf(<<>>, WithStrategy(cfg.mode_imputation, "mode")
                 \o WithStrategy(cfg.mean_imputation, "mean")
                 \o WithStrategy(cfg.median_imputation, "median"))

\* preprocess, lines 58-62: the three lists merged into one dict, a later
\* list overriding the strategy of a column an earlier list named
imputation_dict(cfg) ==
    DictOf(<<>>, WithStrategy(cfg.median_imputation, "median")
                 \o WithStrategy(cfg.mean_imputation, "mean")
                 \o WithStrategy(cfg.mode_imputation, "mode"))

\* preprocess, lines 52-64, on the cleaner's table t: what the cleaner holds
\* afterwards, what was raised, and whether processed_data was rebound to the
\* cleaner's table
clean_stage(t, cfg) ==
    LET r1 == IF "drop_columns" \in cfg.has
              THEN drop_columns(t, cfg.drop_columns) ELSE Ok(t)
        r2 == IF "na_threshold" \in cfg.has
              THEN drop_na_columns(r1.tbl, cfg.na_threshold) ELSE r1
        dict == imputation_dict(cfg)
        r3 == IF r2.err = "" /\ dict # <<>> THEN impute_values(r2.tbl, dict) ELSE r2
    IN  [err |-> r3.err, tbl |-> r3.tbl,
         rebound |-> \/ "drop_columns" \in cfg.has
                     \/ "na_threshold" \in cfg.has /\ r2.err = ""
                     \/ dict # <<>> /\ r3.err = ""]

\* the configuration with a section read: present with value v, or absent
Read(cfg, key, opt) ==
    IF opt.has THEN [[cfg EXCEPT !.has = @ \cup {key}] EXCEPT ![key] = opt.v]
    ELSE cfg

\* an except clause that keeps what the stages had produced so far
Abort_KeepsPartial(err) ==
    /\ pc' = "idle"
    /\ call' = [call EXCEPT !.err = err]
    /\ result' = Returned("table", processed_data)
    /\ processed_data' = 0
    /\ data' = processed_data

\* preprocess, lines 95-97: a stage raised; the except clause logs and
\* returns None, self.data is not assigned
Abort(err) ==
    /\ pc' = "idle"
    /\ call' = [call EXCEPT !.err = err]
    /\ result' = Returned("None", 0)
    /\ processed_data' = 0
    /\ UNCHANGED data

\* preprocess, lines 48-64: the cleaning steps
CleanStage ==
    /\ pc = "clean"
    /\ \E dc \in Opt(DropColumnsPool, <<>>), na \in Opt(NaThresholdPool, None),
          imp \in ImputationPool :
        LET cfg == Read(Read(Read(Read(Read(config,
                        "drop_columns", dc), "na_threshold", na),
                        "median_imputation", imp[1]), "mean_imputation", imp[2]),
                        "mode_imputation", imp[3])
            r == clean_stage(heap[cleaner_data], cfg)
        IN  /\ config' = cfg
            /\ heap' = [heap EXCEPT ![cleaner_data] = r.tbl]
            /\ IF r.err = ""
               THEN /\ pc' = "outlier"
                    /\ processed_data' = IF r.rebound THEN cleaner_data ELSE processed_data
                    /\ UNCHANGED <<data, call, result>>
               ELSE Abort(r.err)
    /\ UNCHANGED <<pipeline, cleaner_data, detector_data, encoder_data, fitted_encoders,
                   fitted_scalers, imputer_data, caller, ncalls>>

\* settings.get("method", "iqr")
method_of(settings) == IF settings.has_method THEN settings.method ELSE "iqr"

\* settings.get("threshold", 1.5)
threshold_of(settings) == IF settings.has_threshold THEN settings.threshold ELSE Rat(3, 2)

NoLib == [err |-> "", K |-> {}]

\* the sklearn outcomes a remove_outliers call can meet
LibChoices(t, column, method, threshold) ==
    IF method \in {"iforest", "robust_cov"} /\ HasCol(t, column)
    THEN sklearn_outcomes(t, column, method, threshold)
    ELSE {NoLib}

\* the loop over outlier_columns taking the entries from the last to the
\* first
RECURSIVE outlier_loop_last_first(_, _)
outlier_loop_last_first(r, entries) ==
    IF entries = <<>> \/ r.err # "" THEN {r}
    ELSE LET e == entries[Len(entries)]
             m == method_of(e.settings)
             th == threshold_of(e.settings)
         IN  UNION { outlier_loop_last_first(
                        [err |-> x.err, tbl |-> x.tbl, new |-> r.new \/ x.new],
                        SubSeq(entries, 1, Len(entries) - 1)) :
                     x \in {remove_outliers(r.tbl, e.column, m, th, lib) :
                                lib \in LibChoices(r.tbl, e.column, m, th)} }

\* preprocess, lines 70-75: the loop over outlier_columns.items() from the
\* detector state r; every outcome the sklearn models allow
RECURSIVE outlier_loop(_, _)
outlier_loop(r, entries) ==
    IF entries = <<>> \/ r.err # "" THEN {r}
    ELSE LET e == Head(entries)
             m == method_of(e.settings)
             th == threshold_of(e.settings)
         IN  UNION { outlier_loop([err |-> x.err, tbl |-> x.tbl, new |-> r.new \/ x.new],
                                  Tail(entries)) :
                     x \in {remove_outliers(r.tbl, e.column, m, th, lib) :
                                lib \in LibChoices(r.tbl, e.column, m, th)} }

\* preprocess, lines 66-75: outlier removal.  OutlierDetector keeps the table
\* it is given (no copy); each removal rebinds detector.data and
\* processed_data to a new frame.
OutlierStage ==
    /\ pc = "outlier"
    /\ \E oc \in Opt(OutlierColumnsPool, <<>>) :
        /\ config' = Read(config, "outlier_columns", oc)
        /\ IF ~oc.has
           THEN /\ pc' = "encode"
                /\ UNCHANGED <<heap, data, processed_data, detector_data, call, result>>
           ELSE \E r \in outlier_loop([err |-> "", tbl |-> heap[processed_data],
                                       new |-> FALSE], oc.v) :
                /\ heap' = IF r.new THEN Append(heap, r.tbl) ELSE heap
                /\ detector_data' = IF r.new THEN New(heap) ELSE processed_data
                /\ IF r.err = ""
                   THEN /\ pc' = "encode"
                        /\ processed_data' = IF r.new THEN New(heap) ELSE processed_data
                        /\ UNCHANGED <<data, call, result>>
                   ELSE Abort(r.err)
    /\ UNCHANGED <<pipeline, cleaner_data, encoder_data, fitted_encoders, fitted_scalers,
                   imputer_data, caller, ncalls>>

\* the loop over categorical_encoding.items() on one encoder
RECURSIVE encode_loop(_, _)
encode_loop(st, pairs) ==
    IF pairs = <<>> THEN st
    ELSE encode_loop(encode_categorical(st.tbl, st.reg, Head(pairs)[1], Head(pairs)[2]),
                     Tail(pairs))

\* the loop over feature_scaling.items() on one encoder
RECURSIVE scale_loop(_, _)
scale_loop(st, pairs) ==
    IF pairs = <<>> THEN st
    ELSE scale_loop(scale_features(st.tbl, st.reg, Head(pairs)[1], Head(pairs)[2]),
                    Tail(pairs))

\* preprocess, lines 77-81: categorical encoding.  DataEncoder keeps the
\* table it is given and changes it in place.
EncodeStage ==
    /\ pc = "encode"
    /\ \E ce \in Opt(CategoricalEncodingPool, <<>>) :
        /\ config' = Read(config, "categorical_encoding", ce)
        /\ IF ~ce.has
           THEN UNCHANGED <<heap, encoder_data, fitted_encoders, fitted_scalers>>
           ELSE LET st == encode_loop([tbl |-> heap[processed_data], reg |-> EmptyDict], ce.v)
                IN  /\ heap' = [heap EXCEPT ![processed_data] = st.tbl]
                    /\ encoder_data' = processed_data
                    /\ fitted_encoders' = st.reg
                    /\ fitted_scalers' = EmptyDict
    /\ pc' = "scale"
    /\ UNCHANGED <<pipeline, data, processed_data, cleaner_data, detector_data, imputer_data,
                   caller, ncalls, call, result>>

\* the table a stage built on the loaded table is handed, were it not the
\* running one
scaling_encoder_arg_loaded(loaded, processed) == loaded

\* preprocess, lines 85-87: DataEncoder(processed_data), "Create new encoder
\* with latest data"
scaling_encoder_arg(loaded, processed) == processed

\* preprocess, lines 83-93: feature scaling on a new DataEncoder, then
\* self.data = processed_data and the return of self.data
ScaleStage ==
    /\ pc = "scale"
    /\ \E fs \in Opt(FeatureScalingPool, <<>>) :
        LET arg == scaling_encoder_arg(data, processed_data)
            st == scale_loop([tbl |-> heap[arg], reg |-> EmptyDict], fs.v)
            final == IF fs.has /\ fs.v # <<>> THEN arg ELSE processed_data
        IN  /\ config' = Read(config, "feature_scaling", fs)
            /\ IF ~fs.has
               THEN UNCHANGED <<heap, encoder_data, fitted_encoders, fitted_scalers>>
               ELSE /\ heap' = [heap EXCEPT ![arg] = st.tbl]
                    /\ encoder_data' = arg
                    /\ fitted_encoders' = EmptyDict
                    /\ fitted_scalers' = st.reg
            /\ data' = final
            /\ result' = Returned("table", final)
    /\ processed_data' = 0
    /\ pc' = "idle"
    /\ UNCHANGED <<pipeline, cleaner_data, detector_data, imputer_data, caller, ncalls, call>>

Next ==
    \/ LoadData
    \/ PreprocessBegin
    \/ CleanStage
    \/ OutlierStage
    \/ EncodeStage
    \/ ScaleStage

Spec == Init /\ [][Next]_vars

(***************************************************************************)
(* The stages used on their own: a caller builds one stage on a table it   *)
(* holds and calls its methods.                                            *)
(***************************************************************************)
\* most method calls made on one stage
MaxCalls == 2

ImputePairsPool ==
    { <<<<"age", "mean">>>>, <<<<"zzz", "median">>, <<"dept", "mode">>>>,
      <<<<"age", "median">>, <<"x", "bogus">>>>, <<<<"dept", "mean">>>>,
      <<<<"zzz", "bogus">>, <<"age", "mean">>>> }

RemoveArgs(column, method, threshold) ==
    [column |-> column, method |-> method, threshold |-> threshold]
RemoveOutliersPool ==
    { RemoveArgs("age", "iqr", Rat(3, 2)), RemoveArgs("x", "iqr", Rat(1, 2)),
      RemoveArgs("dept", "iqr", Rat(3, 2)),
      RemoveArgs("age", "zscore", Rat(1, 2)), RemoveArgs("age", "zscore", Num(1)),
      RemoveArgs("dept", "zscore", Num(3)), RemoveArgs("zzz", "zscore", Num(3)),
      RemoveArgs("age", "bogus", Rat(3, 2)),
      RemoveArgs("x", "iforest", Rat(1, 4)), RemoveArgs("age", "robust_cov", Rat(1, 4)) }

EncodePool ==
    { <<"dept", "one_hot">>, <<"dept", "label">>, <<"age", "label">>,
      <<"zzz", "one_hot">>, <<"dept", "bogus">> }
ScalePool ==
    { <<"age", "minmax">>, <<"age", "robust">>, <<"x", "standard">>,
      <<"dept", "minmax">>, <<"age", "bogus">>, <<"zzz", "standard">> }
ImputerColumns == {"age", "dept", "x", "zzz"}

Fresh == caller = 0 /\ pc = "idle" /\ call = NoCall

\* DataCleaner(data): self.data = data.copy()
NewDataCleaner ==
    /\ Fresh
    /\ \E df \in Frames :
        /\ heap' = <<df, df>>
        /\ caller' = 1
        /\ cleaner_data' = 2
    /\ call' = Call("DataCleaner", "", "", None, <<>>, "")
    /\ UNCHANGED <<pipeline, data, pc, config, processed_data, detector_data, encoder_data,
                   fitted_encoders, fitted_scalers, imputer_data, ncalls, result>>

\* OutlierDetector(data): self.data = data
NewOutlierDetector ==
    /\ Fresh
    /\ \E df \in Frames :
        /\ heap' = <<df>>
        /\ caller' = 1
        /\ detector_data' = 1
    /\ call' = Call("OutlierDetector", "", "", None, <<>>, "")
    /\ UNCHANGED <<pipeline, data, pc, config, processed_data, cleaner_data, encoder_data,
                   fitted_encoders, fitted_scalers, imputer_data, ncalls, result>>

\* DataEncoder(data): self.data = data, both registries empty
NewDataEncoder ==
    /\ Fresh
    /\ \E df \in Frames :
        /\ heap' = <<df>>
        /\ caller' = 1
        /\ encoder_data' = 1
    /\ fitted_encoders' = EmptyDict
    /\ fitted_scalers' = EmptyDict
    /\ call' = Call("DataEncoder", "", "", None, <<>>, "")
    /\ UNCHANGED <<pipeline, data, pc, config, processed_data, cleaner_data, detector_data,
                   imputer_data, ncalls, result>>

\* DataImputation(data): self.data = data
NewDataImputation ==
    /\ Fresh
    /\ \E df \in Frames :
        /\ heap' = <<df>>
        /\ caller' = 1
        /\ imputer_data' = 1
    /\ call' = Call("DataImputation", "", "", None, <<>>, "")
    /\ UNCHANGED <<pipeline, data, pc, config, processed_data, cleaner_data, detector_data,
                   encoder_data, fitted_encoders, fitted_scalers, ncalls, result>>

\* the return of a method that hands back the table of reference ref, or raised
Outcome(err, ref) == IF err = "" THEN Returned("table", ref) ELSE Returned("raised", 0)

\* a method of the cleaner: it works in place on cleaner.data
CleanerCall(c, r) ==
    /\ heap' = [heap EXCEPT ![cleaner_data] = r.tbl]
    /\ call' = [c EXCEPT !.err = r.err]
    /\ result' = Outcome(r.err, cleaner_data)
    /\ ncalls' = ncalls + 1
    /\ UNCHANGED <<pipeline, data, pc, config, processed_data, cleaner_data, detector_data,
                   encoder_data, fitted_encoders, fitted_scalers, imputer_data, caller>>

CleanerDropColumns ==
    /\ cleaner_data # 0 /\ caller # 0 /\ ncalls < MaxCalls
    /\ \E columns \in DropColumnsPool :
        CleanerCall(Call("drop_columns", "", "", None, columns, ""),
                    drop_columns(heap[cleaner_data], columns))

CleanerDropNaColumns ==
    /\ cleaner_data # 0 /\ caller # 0 /\ ncalls < MaxCalls
    /\ \E threshold \in NaThresholdPool \cup {Num(50)} :
        CleanerCall(Call("drop_na_columns", "", "", threshold, <<>>, ""),
                    drop_na_columns(heap[cleaner_data], threshold))

CleanerImputeValues ==
    /\ cleaner_data # 0 /\ caller # 0 /\ ncalls < MaxCalls
    /\ \E pairs \in ImputePairsPool :
        CleanerCall(Call("impute_values", "", "", None, pairs, ""),
                    impute_values(heap[cleaner_data], pairs))

\* OutlierDetector.remove_outliers on the standalone detector
DetectorRemoveOutliers ==
    /\ detector_data # 0 /\ caller # 0 /\ ncalls < MaxCalls
    /\ \E a \in RemoveOutliersPool :
        \E lib \in LibChoices(heap[detector_data], a.column, a.method, a.threshold) :
            LET r == remove_outliers(heap[detector_data], a.column, a.method,
                                     a.threshold, lib)
                ref == IF r.new THEN New(heap) ELSE detector_data
            IN  /\ heap' = IF r.new THEN Append(heap, r.tbl) ELSE heap
                /\ detector_data' = ref
                /\ call' = Call("remove_outliers", a.column, a.method, a.threshold,
                                <<>>, r.err)
                /\ result' = Outcome(r.err, ref)
    /\ ncalls' = ncalls + 1
    /\ UNCHANGED <<pipeline, data, pc, config, processed_data, cleaner_data, encoder_data,
                   fitted_encoders, fitted_scalers, imputer_data, caller>>

\* DataEncoder.encode_categorical on the standalone encoder
EncoderEncodeCategorical ==
    /\ encoder_data # 0 /\ caller # 0 /\ ncalls < MaxCalls
    /\ \E a \in EncodePool :
        LET st == encode_categorical(heap[encoder_data], fitted_encoders, a[1], a[2])
        IN  /\ heap' = [heap EXCEPT ![encoder_data] = st.tbl]
            /\ fitted_encoders' = st.reg
            /\ call' = Call("encode_categorical", a[1], a[2], None, <<>>, "")
    /\ result' = Returned("table", encoder_data)
    /\ ncalls' = ncalls + 1
    /\ UNCHANGED <<pipeline, data, pc, config, processed_data, cleaner_data, detector_data,
                   encoder_data, fitted_scalers, imputer_data, caller>>

\* DataEncoder.scale_features on the standalone encoder
EncoderScaleFeatures ==
    /\ encoder_data # 0 /\ caller # 0 /\ ncalls < MaxCalls
    /\ \E a \in ScalePool :
        LET st == scale_features(heap[encoder_data], fitted_scalers, a[1], a[2])
        IN  /\ heap' = [heap EXCEPT ![encoder_data] = st.tbl]
            /\ fitted_scalers' = st.reg
            /\ call' = Call("scale_features", a[1], a[2], None, <<>>, "")
    /\ result' = Returned("table", encoder_data)
    /\ ncalls' = ncalls + 1
    /\ UNCHANGED <<pipeline, data, pc, config, processed_data, cleaner_data, detector_data,
                   encoder_data, fitted_encoders, imputer_data, caller>>

\* a method of the imputer: it works in place on imputer.data, returns None
ImputerCall(op, column, r) ==
    /\ heap' = [heap EXCEPT ![imputer_data] = r.tbl]
    /\ call' = Call(op, column, "", None, <<>>, r.err)
    /\ result' = IF r.err = "" THEN Returned("None", 0) ELSE Returned("raised", 0)
    /\ ncalls' = ncalls + 1
    /\ UNCHANGED <<pipeline, data, pc, config, processed_data, cleaner_data, detector_data,
                   encoder_data, fitted_encoders, fitted_scalers, imputer_data, caller>>

ImputerFillMedian ==
    /\ imputer_data # 0 /\ caller # 0 /\ ncalls < MaxCalls
    /\ \E column \in ImputerColumns :
        ImputerCall("fill_median", column, fill_median(heap[imputer_data], column))

ImputerFillMean ==
    /\ imputer_data # 0 /\ caller # 0 /\ ncalls < MaxCalls
    /\ \E column \in ImputerColumns :
        ImputerCall("fill_mean", column, fill_mean(heap[imputer_data], column))

ImputerFillMode ==
    /\ imputer_data # 0 /\ caller # 0 /\ ncalls < MaxCalls
    /\ \E column \in ImputerColumns :
        ImputerCall("fill_mode", column, fill_mode(heap[imputer_data], column))

NextStages ==
    \/ NewDataCleaner
    \/ NewOutlierDetector
    \/ NewDataEncoder
    \/ NewDataImputation
    \/ CleanerDropColumns
    \/ CleanerDropNaColumns
    \/ CleanerImputeValues
    \/ DetectorRemoveOutliers
    \/ EncoderEncodeCategorical
    \/ EncoderScaleFeatures
    \/ ImputerFillMedian
    \/ ImputerFillMean
    \/ ImputerFillMode

SpecStages == Init /\ [][NextStages]_vars

(***************************************************************************)
(* The pipelines (pipeline/base_pipeline.py, eda_pipeline.py,              *)
(* training_pipeline.py): one run of a new pipeline object, whose          *)
(* DataPreprocessor is new as well.                                        *)
(***************************************************************************)
\* DataPreprocessor.preprocess(config) as one call on the loaded table t:
\* the exception its except clause caught ("" for none) and the table it
\* returns, for every outcome the sklearn models allow
preprocess_outcomes(t, cfg) ==
    LET c == clean_stage(t, cfg)
        start == [err |-> "", tbl |-> c.tbl, new |-> FALSE]
        removed == IF "outlier_columns" \in cfg.has
                   THEN outlier_loop(start, cfg.outlier_columns) ELSE {start}
        encoded(u) == IF "categorical_encoding" \in cfg.has
                      THEN encode_loop([tbl |-> u, reg |-> EmptyDict],
                                       cfg.categorical_encoding).tbl
                      ELSE u
        scaled(u) == IF "feature_scaling" \in cfg.has
                     THEN scale_loop([tbl |-> u, reg |-> EmptyDict],
                                     cfg.feature_scaling).tbl
                     ELSE u
    IN  IF c.err # "" THEN {Raise(c.err, t)}
        ELSE { IF o.err # "" THEN Raise(o.err, t) ELSE Ok(scaled(encoded(o.tbl))) :
               o \in removed }

\* the truth value 'not value' asks for: None is false, a bool is itself,
\* a DataFrame raises ValueError (its truth value is ambiguous)
truth(kind) ==
    IF kind = "table" THEN [err |-> "ValueError", val |-> FALSE]
    ELSE [err |-> "", val |-> kind = "True"]

\* EDAPipeline.run after self.load_data(file_path) returned a value of the
\* given kind (BasePipeline.load_data returns the table, or None), the
\* pipeline's own DataPreprocessor holding the table reference held (0: no
\* table, as load_data was not called on it): what run returns and the
\* exception its except clause caught.  preprocess without a table returns
\* None, and EDA(None) raises AttributeError at data.copy().
eda_run(loaded, held) ==
    LET b == truth(loaded)
    IN  IF b.err # "" THEN [err |-> b.err, ret |-> "None"]
        ELSE IF ~b.val THEN [err |-> "", ret |-> "None"]
        ELSE IF held = 0 THEN [err |-> "AttributeError", ret |-> "None"]
        ELSE [err |-> "", ret |-> "table"]

\* train_test_split(X, y, test_size=0.2): refuses a table it cannot cut
\* into a non-empty train and test part
split_raises(t) == NRows(t) < 2

\* TrainingPipeline.run after self.preprocessor.load_data returned ok and
\* preprocess ended with outcome: what run returns and the exception its
\* except clause caught.  feature_config and encoder_config are not read.
training_run(ok, outcome, target_column) ==
    IF ~ok THEN [err |-> "", ret |-> "None"]
    ELSE IF outcome.err # "" THEN [err |-> "", ret |-> "None"]
    ELSE IF target_column # "" /\ HasCol(outcome.tbl, target_column)
         THEN IF split_raises(outcome.tbl) THEN [err |-> "ValueError", ret |-> "None"]
              ELSE [err |-> "", ret |-> "split"]
    ELSE [err |-> "", ret |-> "table"]

\* configurations handed to a run
PreprocessConfigPool ==
    { NoConfig,
      Read(Read(NoConfig, "drop_columns", Present(<<"x">>)),
           "median_imputation", Present(<<"age">>)),
      Read(NoConfig, "outlier_columns",
           Present(<<Entry("age", Settings(TRUE, "zscore", TRUE, Rat(1, 2)))>>)),
      Read(Read(NoConfig, "categorical_encoding", Present(<<<<"dept", "one_hot">>>>)),
           "feature_scaling", Present(<<<<"age", "minmax">>>>)),
      Read(NoConfig, "na_threshold", Present(None)) }
EncoderConfigPool ==
    { EncoderConfig(<<>>, <<>>),
      EncoderConfig(<<<<"dept", "label">>>>, <<<<"age", "minmax">>>>) }
\* target_column: "" stands for None
TargetPool == {"", "x", "zzz"}

\* EDAPipeline().run(file_path, basic_config)
EdaRun ==
    /\ Fresh /\ pipeline = NoPipeline
    /\ \E path \in Paths : \E df \in ReadCsv(path) : \E cfg \in PreprocessConfigPool :
        LET r == import_csv(path, df)
            loaded == IF r.ok THEN "table" ELSE "None"
            out == eda_run(loaded, data)
        IN  /\ heap' = IF r.ok THEN <<df>> ELSE <<>>
            /\ pipeline' = Pipeline("eda", IF r.ok THEN 1 ELSE 0, cfg,
                                    EncoderConfig(<<>>, <<>>), "")
            /\ call' = Call("run", path.text, "", None, <<path>>, out.err)
            /\ result' = Returned(out.ret, 0)
    /\ UNCHANGED <<data, pc, config, processed_data, cleaner_data, detector_data,
                   encoder_data, fitted_encoders, fitted_scalers, imputer_data,
                   caller, ncalls>>

\* TrainingPipeline().run(file_path, preprocess_config, feature_config,
\* encoder_config, target_column)
TrainingRun ==
    /\ Fresh /\ pipeline = NoPipeline
    /\ \E path \in Paths : \E df \in ReadCsv(path) :
       \E cfg \in PreprocessConfigPool, ec \in EncoderConfigPool, target \in TargetPool :
        LET r == import_csv(path, df)
        IN  \E o \in (IF r.ok THEN preprocess_outcomes(df, cfg) ELSE {Ok(df)}) :
                LET out == training_run(r.ok, o, target)
                    done == r.ok /\ o.err = ""
                IN  /\ heap' = IF done THEN <<df, o.tbl>> ELSE IF r.ok THEN <<df>> ELSE <<>>
                    /\ data' = IF done THEN 2 ELSE IF r.ok THEN 1 ELSE 0
                    /\ config' = IF r.ok THEN cfg ELSE NoConfig
                    /\ pipeline' = Pipeline("training",
                                            IF done THEN 2 ELSE 0, cfg, ec, target)
                    /\ call' = Call("run", path.text, "", None, <<path>>,
                                    IF out.err # "" THEN out.err
                                    ELSE IF r.ok THEN o.err ELSE "")
                    /\ result' = Returned(out.ret, IF out.ret = "None" THEN 0 ELSE 2)
    /\ UNCHANGED <<pc, processed_data, cleaner_data, detector_data, encoder_data,
                   fitted_encoders, fitted_scalers, imputer_data, caller, ncalls>>

NextPipelines ==
    \/ EdaRun
    \/ TrainingRun

SpecPipelines == Init /\ [][NextPipelines]_vars

(***************************************************************************)
(* Properties                                                              *)
(***************************************************************************)
StageOrder ==
    { <<"idle", "clean">>, <<"clean", "outlier">>, <<"outlier", "encode">>,
      <<"encode", "scale">>, <<"scale", "idle">>,
      <<"clean", "idle">>, <<"outlier", "idle">> }

\* C1: preprocess runs cleaning, then outlier removal, then categorical
\* encoding, then feature scaling, and every stage works on the table the
\* stage before it produced: the cleaner starts from the loaded table, and
\* the table after the outlier, encoding and scaling stage is that stage's
\* loop applied to the table processed_data held when the stage began.
C1_StagesThreadTable ==
    [][ /\ pc' # pc => <<pc, pc'>> \in StageOrder
        /\ pc = "idle" /\ pc' = "clean" => heap'[cleaner_data'] = heap[data]
        /\ pc = "clean" /\ pc' = "outlier" =>
              heap'[processed_data'] = heap'[cleaner_data']
        /\ pc = "outlier" /\ pc' = "encode" =>
              IF "outlier_columns" \in config'.has
              THEN \E r \in outlier_loop([err |-> "", tbl |-> heap[processed_data],
                                          new |-> FALSE], config'.outlier_columns) :
                        r.err = "" /\ heap'[processed_data'] = r.tbl
              ELSE heap'[processed_data'] = heap[processed_data]
        /\ pc = "encode" /\ pc' = "scale" =>
              heap'[processed_data'] =
                  encode_loop([tbl |-> heap[processed_data], reg |-> EmptyDict],
                              config'.categorical_encoding).tbl
        /\ pc = "scale" /\ pc' = "idle" =>
              /\ result'.kind = "table"
              /\ heap'[result'.ref] =
                    scale_loop([tbl |-> heap[processed_data], reg |-> EmptyDict],
                               config'.feature_scaling).tbl
      ]_vars

\* C1 witness: preprocess returned a table whose dept column was label
\* encoded and then min-max scaled, which the scaler does only for numbers
C1_Witness ==
    /\ call.op = "preprocess" /\ result.kind = "table"
    /\ <<"dept", "label">> \in Range(config.categorical_encoding)
    /\ <<"dept", "minmax">> \in Range(config.feature_scaling)
    /\ "dept" \in DOMAIN fitted_scalers
    /\ Num(1) \in Range(heap[result.ref].val["dept"])
    /\ Num(0) \in Range(heap[result.ref].val["dept"])

\* the method names remove_outliers documents
KnownOutlierMethods == {"iqr", "zscore", "iforest", "robust_cov"}

\* C2: when outlier_columns names a method that is none of iqr, zscore,
\* iforest, robust_cov, the outlier stage raises and preprocess aborts,
\* returning None instead of a table.
C2_UnknownMethodAborts ==
    ( /\ call.op = "preprocess"
      /\ "outlier_columns" \in config.has
      /\ \E i \in DOMAIN config.outlier_columns :
            method_of(config.outlier_columns[i].settings) \notin KnownOutlierMethods )
    => (pc = "idle" /\ call.err # "" /\ result.kind = "None")

\* the columns of t whose fraction of missing values is strictly above f
AboveFraction(t, f) ==
    {c \in Columns(t) : NRows(t) > 0 /\ NaCount(t.val[c]) * f.d > f.n * NRows(t)}

\* C3: with na_threshold a fraction t in [0, 1], cleaning drops exactly the
\* columns whose fraction of missing values is strictly greater than t and
\* keeps every other column (of those drop_columns left).
C3_DropsAboveFraction ==
    ( /\ pc = "outlier"
      /\ "na_threshold" \in config.has
      /\ config.na_threshold.t = "num"
      /\ RLe(Num(0), config.na_threshold) /\ RLe(config.na_threshold, Num(1)) )
    => Columns(heap[processed_data]) =
          (Columns(heap[data]) \ Range(config.drop_columns))
              \ AboveFraction(heap[data], config.na_threshold)

\* the per-row view of a table
Row(t, i) == [c \in Columns(t) |-> t.val[c][i]]

\* the table without the rows that repeat an earlier row in every column
WithoutDuplicates(t) ==
    KeepRows(t, {i \in 1..NRows(t) : \A j \in 1..(i - 1) : Row(t, j) # Row(t, i)})

\* C5: the cleaning stage first removes exact duplicate rows (first
\* occurrence kept, order kept) and then applies the column drops, the
\* NA-threshold drop and the imputation.
C5_DuplicatesRemovedFirst ==
    pc = "outlier" =>
        heap[processed_data] = clean_stage(WithoutDuplicates(heap[data]), config).tbl

\* C6: when a stage raises, preprocess returns None, never a table, and no
\* step of a call other than its successful end changes which table the
\* preprocessor stores or what that table holds.
C6_FailureKeepsLoadedTable ==
    [][ /\ (call'.op = "preprocess" /\ call'.err # "") =>
              (pc' = "idle" /\ result' = Returned("None", 0))
        /\ (data # 0 /\ ~(pc = "scale" /\ pc' = "idle")) =>
              (data' = data /\ heap'[data] = heap[data])
      ]_vars

\* C6 witness: a stage raised after the cleaner had already changed its
\* table; None was returned and a table is still stored
C6_Witness ==
    /\ call.op = "preprocess" /\ call.err # "" /\ result.kind = "None"
    /\ data # 0
    /\ heap[cleaner_data] # heap[data]

\* C8: an outlier_columns entry naming a column the table does not have is
\* skipped without failing: a stage whose entries all name absent columns
\* does not abort preprocess.
C8_AbsentColumnLenient ==
    ( /\ call.op = "preprocess"
      /\ "outlier_columns" \in config.has
      /\ \A i \in DOMAIN config.outlier_columns :
            config.outlier_columns[i].column \notin Columns(heap[cleaner_data]) )
    => call.err = ""

\* x within [Q1 - t*IQR, Q3 + t*IQR] of the column s
WithinIqrFence(s, x, t) ==
    LET q1 == Quantile(s, 1, 4)
        q3 == Quantile(s, 3, 4)
        reach == RMul(t, RSub(q3, q1))
    IN  /\ x.t = "num"
        /\ RLe(RSub(q1, reach), x)
        /\ RLe(x, RAdd(q3, reach))

\* C4: remove_outliers(column, 'iqr', t) on a numeric column returns a table
\* that keeps exactly the rows whose value lies within
\* [Q1 - t*IQR, Q3 + t*IQR], the quartiles being those of the column before
\* the removal.
C4_IqrKeepsFence ==
    ( /\ call.op = "remove_outliers" /\ call.method = "iqr" /\ ncalls = 1
      /\ HasCol(heap[caller], call.column)
      /\ IsNumericDtype(heap[caller], call.column) )
    => /\ result.kind = "table"
       /\ LET t == heap[caller]
              s == t.val[call.column]
          IN  \A i \in 1..NRows(t) :
                  t.index[i] \in Range(heap[result.ref].index)
                      <=> WithinIqrFence(s, s[i], call.arg)

\* C7: a DataCleaner, OutlierDetector or DataEncoder never changes the table
\* object it was constructed on.
C7_StagesLeaveCallerTable ==
    [][ (caller # 0 /\ imputer_data = 0) => heap'[caller] = heap[caller] ]_vars

FillOps == {"fill_median", "fill_mean"}

\* C9 as stated: on a numeric column with at least one missing value (a
\* column of missing values only included) fill_median and fill_mean leave
\* no missing value and change no value that was present.
C9_FillLeavesNoMissing ==
    [][ ( /\ call'.op \in FillOps /\ ncalls' = ncalls + 1
          /\ HasCol(heap[imputer_data], call'.column)
          /\ IsNumericDtype(heap[imputer_data], call'.column)
          /\ NaCount(heap[imputer_data].val[call'.column]) >= 1 )
        => LET old == heap[imputer_data].val[call'.column]
               new == heap'[imputer_data].val[call'.column]
           IN  /\ call'.err = ""
               /\ NaCount(new) = 0
               /\ \A i \in DOMAIN old : ~IsNa(old[i]) => new[i] = old[i]
      ]_vars

\* C9 amended: on a numeric column with at least one missing and at least
\* one present value, fill_median and fill_mean leave no missing value and
\* change no value that was present.
C9_FillLeavesNoMissingGivenAValue ==
    [][ ( /\ call'.op \in FillOps /\ ncalls' = ncalls + 1
          /\ HasCol(heap[imputer_data], call'.column)
          /\ IsNumericDtype(heap[imputer_data], call'.column)
          /\ NaCount(heap[imputer_data].val[call'.column]) >= 1
          /\ NonNa(heap[imputer_data].val[call'.column]) # <<>> )
        => LET old == heap[imputer_data].val[call'.column]
               new == heap'[imputer_data].val[call'.column]
           IN  /\ call'.err = ""
               /\ NaCount(new) = 0
               /\ \A i \in DOMAIN old : ~IsNa(old[i]) => new[i] = old[i]
      ]_vars

\* C9 witness: fill_mean put the mean 5 of the present values 1 and 9 into
\* the missing entries of age
C9_Witness ==
    /\ call.op = "fill_mean" /\ call.column = "age" /\ call.err = ""
    /\ NaCount(heap[imputer_data].val["age"]) = 0
    /\ {Num(1), Num(5), Num(9)} \subseteq Range(heap[imputer_data].val["age"])

\* C10: fill_median, fill_mean and fill_mode raise for a column the table
\* lacks, fill_median and fill_mean raise for a column that is not numeric,
\* every such raise leaves all tables as they were, and fill_mode raises no
\* dtype error for a column that is not numeric.
C10_ImputerErrors ==
    [][ (call'.op \in FillOps \cup {"fill_mode"} /\ ncalls' = ncalls + 1) =>
          LET t == heap[imputer_data]
              c == call'.column
          IN  /\ ~HasCol(t, c) =>
                    (call'.err = "ValueError: not found" /\ heap' = heap)
              /\ (HasCol(t, c) /\ ~IsNumericDtype(t, c) /\ call'.op \in FillOps) =>
                    (call'.err = "ValueError: must be numeric" /\ heap' = heap)
              /\ (HasCol(t, c) /\ ~IsNumericDtype(t, c) /\ call'.op = "fill_mode") =>
                    call'.err # "ValueError: must be numeric"
      ]_vars

\* C10 witness: fill_median refused the text column dept, whose missing
\* entries are still missing
C10_Witness ==
    /\ call.op = "fill_median" /\ call.column = "dept"
    /\ call.err = "ValueError: must be numeric" /\ result.kind = "raised"
    /\ ~IsNumericDtype(heap[imputer_data], "dept")
    /\ NaCount(heap[imputer_data].val["dept"]) > 0

\* |x - mean| / stddev > t on the column s: defined only for a present x and
\* a column with a sample standard deviation that is a positive number
ZScoreExceeds(s, x, t) ==
    LET v == NonNa(s)
        k == Len(v)
        m == RDiv(RSum(v), Num(k))
        dev2(a) == RMul(RSub(a, m), RSub(a, m))
        var == RDiv(RSum([i \in DOMAIN v |-> dev2(v[i])]), Num(k - 1))
    IN  /\ x.t = "num"
        /\ k >= 2
        /\ var.n > 0
        /\ \/ RLt(t, Num(0))
           \/ RLt(RMul(RMul(t, t), var), dev2(x))

\* C11: remove_outliers(column, 'zscore', t) on a numeric column returns the
\* table without exactly the rows whose |value - mean| / stddev exceeds t
\* (mean and stddev of the column before the removal); every other row, a
\* row with a missing value and every row of a constant or one-row column
\* included, is kept, in the original order.
C11_ZscoreRemovesExactly ==
    [][ ( /\ call'.op = "remove_outliers" /\ call'.method = "zscore"
          /\ ncalls' = ncalls + 1
          /\ HasCol(heap[detector_data], call'.column)
          /\ IsNumericDtype(heap[detector_data], call'.column) )
        => LET t == heap[detector_data]
               s == t.val[call'.column]
               kept == {i \in 1..NRows(t) : ~ZScoreExceeds(s, s[i], call'.arg)}
           IN  /\ call'.err = ""
               /\ result'.kind = "table"
               /\ heap'[result'.ref].cols = t.cols
               /\ heap'[result'.ref].val = [c \in Columns(t) |-> Pick(t.val[c], kept, 1)]
      ]_vars

\* C11 witness: a z-score removal on age took rows out and kept the row
\* whose age is missing
C11_Witness ==
    /\ call.op = "remove_outliers" /\ call.method = "zscore" /\ call.err = ""
    /\ call.column = "age" /\ ncalls = 1
    /\ result.kind = "table"
    /\ NRows(heap[result.ref]) < NRows(heap[caller])
    /\ NaN \in Range(heap[result.ref].val["age"])

\* C12: encode_categorical(column, 'one_hot') on a present column removes
\* the column, adds exactly one indicator column '<column>_<category>' per
\* distinct value of the column, gives every row an indicator sum of 1 (one
\* indicator is 1, the others 0), and neither changes nor loses any other
\* column the table had.
C12_OneHotReplacesColumn ==
    [][ ( /\ call'.op = "encode_categorical" /\ call'.method = "one_hot"
          /\ ncalls' = ncalls + 1
          /\ HasCol(heap[encoder_data], call'.column) )
        => LET t == heap[encoder_data]
               u == heap'[encoder_data]
               c == call'.column
               added == {feature_name(c, v) : v \in Range(t.val[c])}
           IN  /\ ~HasCol(u, c)
               /\ Columns(u) \ Columns(t) = added
               /\ \A i \in 1..NRows(u) :
                      /\ \A n \in added : u.val[n][i] \in {Num(0), Num(1)}
                      /\ Cardinality({n \in added : u.val[n][i] = Num(1)}) = 1
               /\ \A x \in Columns(t) \ {c} :
                      HasCol(u, x) /\ u.val[x] = t.val[x] /\ u.dtype[x] = t.dtype[x]
      ]_vars

EncodingMethods == {"one_hot", "label"}
ScalingMethods == {"standard", "minmax", "robust"}

\* C13: encode_categorical and scale_features called with a method name
\* they do not know raise nothing, return the encoder's table with every
\* column and value as it was, and add nothing to fitted_encoders or
\* fitted_scalers; the encoder takes the next call.
C13_UnknownMethodLeavesTable ==
    [][ ( \/ call'.op = "encode_categorical" /\ call'.method \notin EncodingMethods
          \/ call'.op = "scale_features" /\ call'.method \notin ScalingMethods )
        /\ ncalls' = ncalls + 1
        => /\ call'.err = ""
           /\ result' = Returned("table", encoder_data)
           /\ encoder_data' = encoder_data
           /\ heap' = heap
           /\ fitted_encoders' = fitted_encoders
           /\ fitted_scalers' = fitted_scalers
      ]_vars

\* C13 witness: after a first call that fitted an encoder or a scaler,
\* scale_features was asked for the method bogus on the present column age
\* of a table with rows
C13_Witness ==
    /\ call.op = "scale_features" /\ call.method = "bogus" /\ call.column = "age"
    /\ ncalls = 2
    /\ HasCol(heap[encoder_data], "age") /\ NRows(heap[encoder_data]) > 0
    /\ DOMAIN fitted_encoders \cup DOMAIN fitted_scalers # {}
    /\ "age" \notin DOMAIN fitted_scalers

\* a file_path import_csv cannot turn into a table: not a string, empty or
\* blank, nothing at the path, an empty file, an unparseable file, a file
\* that yields no column
FailingPath(path) ==
    \/ ~path.isstr
    \/ Blank(path.text)
    \/ path.file \in {"absent", "empty", "garbled", "nocols"}

Strategies == {"mean", "median", "mode"}

\* the value a strategy fills with, from the non-missing values of s
FillValue(strategy, s) ==
    IF strategy = "mean" THEN Mean(s)
    ELSE IF strategy = "median" THEN Median(s)
    ELSE IF Mode(s) = <<>> THEN NaN
    ELSE Mode(s)[1]

\* every missing entry of old holds the fill value in new
Filled(old, new, value) ==
    /\ NaCount(new) = 0
    /\ \A i \in DOMAIN old : IsNa(old[i]) => new[i] = value

\* C15 as stated: impute_values raises when a pair's strategy is not mean,
\* median or mode; otherwise it raises nothing, pairs naming an absent
\* column being skipped, and in every present column it was given all
\* missing entries hold the fill value of the column's non-missing values.
C15_ImputeValuesAsStated ==
    [][ (call'.op = "impute_values" /\ ncalls' = ncalls + 1) =>
          LET t == heap[cleaner_data]
              u == heap'[cleaner_data]
              pairs == call'.items
          IN  IF \E i \in DOMAIN pairs : pairs[i][2] \notin Strategies
              THEN call'.err # ""
              ELSE /\ call'.err = ""
                   /\ \A i \in DOMAIN pairs :
                        HasCol(t, pairs[i][1]) =>
                            Filled(t.val[pairs[i][1]], u.val[pairs[i][1]],
                                   FillValue(pairs[i][2], t.val[pairs[i][1]]))
      ]_vars

\* a pair impute_values stops at: its column is present and its strategy is
\* unknown, or is mean / median on a column holding text, or is mode on a
\* column without any value
Fatal(t, pair) ==
    /\ HasCol(t, pair[1])
    /\ \/ pair[2] \notin Strategies
       \/ pair[2] \in {"mean", "median"} /\ HasStr(t.val[pair[1]])
       \/ pair[2] = "mode" /\ NonNa(t.val[pair[1]]) = <<>>

\* C15 amended: impute_values raises exactly when one of its pairs names a
\* present column with an unknown strategy, with mean or median on text, or
\* with mode on a column without any value; a pair naming an absent column
\* is skipped whatever its strategy; and for every pair before the first
\* raising one whose column is present and has a non-missing value, all
\* missing entries hold the fill value of the column's non-missing values.
C15_ImputeValues ==
    [][ (call'.op = "impute_values" /\ ncalls' = ncalls + 1) =>
          LET t == heap[cleaner_data]
              u == heap'[cleaner_data]
              pairs == call'.items
              stop == {i \in DOMAIN pairs : Fatal(t, pairs[i])}
          IN  /\ call'.err # "" <=> stop # {}
              /\ \A i \in DOMAIN pairs :
                    ( /\ \A j \in stop : i < j
                      /\ HasCol(t, pairs[i][1])
                      /\ NonNa(t.val[pairs[i][1]]) # <<>> )
                    => Filled(t.val[pairs[i][1]], u.val[pairs[i][1]],
                              FillValue(pairs[i][2], t.val[pairs[i][1]]))
      ]_vars

\* C15 witness: impute_values skipped the absent column zzz, whose strategy
\* was bogus, and then filled the missing age with the mean 5 of 1 and 9
C15_Witness ==
    /\ call.op = "impute_values" /\ call.err = "" /\ ncalls = 1
    /\ call.items = <<<<"zzz", "bogus">>, <<"age", "mean">>>>
    /\ NaN \in Range(heap[caller].val["age"])
    /\ heap[cleaner_data].val["age"] = fillna(heap[caller].val["age"], Num(5))

\* the z-score removals of entries applied one after the other, each on the
\* rows the ones before it left
RECURSIVE CumulativeZscore(_, _)
CumulativeZscore(t, entries) ==
    IF entries = <<>> THEN t
    ELSE LET s == t.val[Head(entries).column]
         IN  CumulativeZscore(
                KeepRows(t, {i \in 1..NRows(t) :
                                ~ZScoreExceeds(s, s[i], Head(entries).settings.threshold)}),
                Tail(entries))

\* C16: the outlier stage applies the outlier_columns entries in insertion
\* order and cumulatively: the rows it leaves are rows it was given, and for
\* z-score entries they are those left by removing, entry after entry, the
\* rows that exceed the threshold in the table the earlier entries left.
C16_OutliersCumulative ==
    [][ (pc = "outlier" /\ pc' = "encode" /\ "outlier_columns" \in config'.has) =>
          LET t == heap[processed_data]
              u == heap'[processed_data']
              entries == config'.outlier_columns
          IN  /\ Range(u.index) \subseteq Range(t.index)
              /\ u.cols = t.cols
              /\ (\A i \in DOMAIN entries :
                      /\ entries[i].settings.has_method
                      /\ entries[i].settings.method = "zscore"
                      /\ entries[i].settings.has_threshold)
                 => (u.index = CumulativeZscore(t, entries).index
                     /\ u.val = CumulativeZscore(t, entries).val)
      ]_vars

\* C16 witness: z-score removal on age, then on x, both with threshold 1/2,
\* of the rows (1, 1), (9, 1), (missing, 9): the first entry took the rows
\* with an age out, and the x = 9 row survived the second because the
\* statistics of x were those of the one row left
C16_Witness ==
    /\ pc = "encode"
    /\ Len(config.outlier_columns) = 2
    /\ config.outlier_columns[1] = Entry("age", Settings(TRUE, "zscore", TRUE, Rat(1, 2)))
    /\ config.outlier_columns[2] = Entry("x", Settings(TRUE, "zscore", TRUE, Rat(1, 2)))
    /\ heap[data].val["x"] = <<Num(1), Num(1), Num(9)>>
    /\ heap[processed_data].val["x"] = <<Num(9)>>

\* C17: every table a stage works on has the contiguous row index 0..N-1
\* for its row count N and exactly N values in every column, also after
\* remove_outliers has removed rows.
C17_IndexContiguous ==
    \A r \in DOMAIN heap :
        /\ heap[r].index = [i \in 1..NRows(heap[r]) |-> i - 1]
        /\ \A c \in Columns(heap[r]) : Len(heap[r].val[c]) = NRows(heap[r])

\* the threshold of an entry, the default being the one of its method: 3
\* for zscore
ThresholdOrMethodDefault(settings) ==
    IF settings.has_threshold THEN settings.threshold
    ELSE IF settings.has_method /\ settings.method = "zscore" THEN Num(3)
    ELSE Rat(3, 2)

\* the z-score removals of entries applied one after the other, an entry
\* without a threshold using the z-score default 3
RECURSIVE CumulativeZscoreDefault(_, _)
CumulativeZscoreDefault(t, entries) ==
    IF entries = <<>> THEN t
    ELSE LET s == t.val[Head(entries).column]
             th == ThresholdOrMethodDefault(Head(entries).settings)
         IN  CumulativeZscoreDefault(
                KeepRows(t, {i \in 1..NRows(t) : ~ZScoreExceeds(s, s[i], th)}),
                Tail(entries))

\* C18: an outlier_columns entry that selects zscore and gives no threshold
\* is applied with the z-score default threshold 3: the outlier stage leaves
\* the rows that the z-score removals with that default leave.
C18_ZscoreDefaultThreshold ==
    [][ ( /\ pc = "outlier" /\ pc' = "encode"
          /\ "outlier_columns" \in config'.has
          /\ \A i \in DOMAIN config'.outlier_columns :
                /\ config'.outlier_columns[i].settings.has_method
                /\ config'.outlier_columns[i].settings.method = "zscore" )
        => heap'[processed_data'].val =
              CumulativeZscoreDefault(heap[processed_data], config'.outlier_columns).val
      ]_vars

\* C19: when EDAPipeline.run loaded a table and preprocess succeeds on it
\* under basic_config, run returns that cleaned table, not None.
C19_EdaReturnsCleanedTable ==
    ( /\ pipeline.kind = "eda"
      /\ pipeline.data # 0
      /\ \E o \in preprocess_outcomes(heap[pipeline.data], pipeline.config) : o.err = "" )
    => /\ result.kind = "table"
       /\ \E o \in preprocess_outcomes(heap[pipeline.data], pipeline.config) :
              o.err = "" /\ heap[result.ref] = o.tbl

\* C20: the table TrainingPipeline.run returns or splits is the table of
\* preprocess(preprocess_config) with the categorical_encoding and then the
\* feature_scaling entries of encoder_config applied to it.
C20_EncoderConfigApplied ==
    (pipeline.kind = "training" /\ result.kind \in {"table", "split"}) =>
        \E o \in preprocess_outcomes(heap[1], pipeline.config) :
            /\ o.err = ""
            /\ heap[result.ref] =
                  scale_loop([tbl |-> encode_loop([tbl |-> o.tbl, reg |-> EmptyDict],
                                         pipeline.encoder_config.categorical_encoding).tbl,
                              reg |-> EmptyDict],
                             pipeline.encoder_config.feature_scaling).tbl

ImputationKeys == {"median_imputation", "mean_imputation", "mode_imputation"}

\* the strategy of column c by precedence: mode over mean over median
PrecedenceStrategy(cfg, c) ==
    IF c \in Range(cfg.mode_imputation) THEN "mode"
    ELSE IF c \in Range(cfg.mean_imputation) THEN "mean"
    ELSE "median"

\* the columns named in more than one of the three imputation lists
NamedTwice(cfg) ==
    {c \in Range(cfg.median_imputation) \cup Range(cfg.mean_imputation) :
        Cardinality({k \in ImputationKeys : c \in Range(cfg[k])}) > 1}

\* the orders in which the imputation sections of cfg can be written
SectionOrders(cfg) ==
    LET present == cfg.has \cap ImputationKeys
    IN  {o \in [1..Cardinality(present) -> present] :
            \A i, j \in DOMAIN o : o[i] = o[j] => i = j}

\* cfg with its imputation sections written in the given order
RECURSIVE WrittenInOrder(_, _, _)
WrittenInOrder(acc, cfg, order) ==
    IF order = <<>> THEN acc
    ELSE WrittenInOrder(Read(acc, Head(order), Present(cfg[Head(order)])),
                        cfg, Tail(order))

\* C21: a column named in more than one of median_imputation,
\* mean_imputation and mode_imputation is imputed exactly once, with the
\* one strategy that the precedence mode over mean over median picks,
\* whatever the order of the sections in the configuration.
C21_ImputationPrecedence ==
    pc = "outlier" =>
        LET dict == imputation_dict(config)
            bare == [[config EXCEPT !.has = @ \ ImputationKeys]
                        EXCEPT !.median_imputation = <<>>, !.mean_imputation = <<>>,
                               !.mode_imputation = <<>>]
        IN  /\ \A c \in NamedTwice(config) :
                  /\ Cardinality({i \in DOMAIN dict : dict[i][1] = c}) = 1
                  /\ <<c, PrecedenceStrategy(config, c)>> \in Range(dict)
                  /\ HasCol(heap[processed_data], c) =>
                        heap[processed_data].val[c] =
                            fillna(heap[data].val[c],
                                   FillValue(PrecedenceStrategy(config, c), heap[data].val[c]))
            /\ \A order \in SectionOrders(config) :
                  \A c \in NamedTwice(config) :
                      <<c, PrecedenceStrategy(config, c)>> \in
                          Range(imputation_dict(WrittenInOrder(bare, config, order)))

\* C21 witness: age, named for median and for mode, with the values 1, 9
\* and a missing one, had the missing one filled with the mode 1, not with
\* the median 5
C21_Witness ==
    /\ pc = "outlier"
    /\ "age" \in Range(config.median_imputation)
    /\ "age" \in Range(config.mode_imputation)
    /\ {Num(1), Num(9), NaN} \subseteq Range(heap[data].val["age"])
    /\ HasCol(heap[processed_data], "age")
    /\ heap[processed_data].val["age"] = fillna(heap[data].val["age"], Num(1))

====
